---------------------------- MODULE Spec2Model ----------------------------
(***************************************************************************)
(* Workshop notebooks of ProAIM_SC_Opt_Workshop as state machines.         *)
(*                                                                         *)
(* Spec         a notebook kernel running one notebook's code cells from   *)
(*              top to bottom: the solver-path lookup, the construction of *)
(*              model objects, the blocking solver call, and the reads and *)
(*              prints that follow it.                                     *)
(* SpecInstance two kernels of Workshop 4 whose generators start in        *)
(*              arbitrary states and that call GenerateInstance, with and  *)
(*              without the seeding cell.                                  *)
(* SpecFacility the model built by CreateFacilityLocationModel and the     *)
(*              assignments of its variables a solver may propose.         *)
(* SpecFormulations  the MILP formulations written in Workshop 1b, tried   *)
(*              point by point.                                            *)
(* SpecUncertainty   the three models of Workshop 5: the bounds of x1 and   *)
(*              the chance constraint on the sample indicators.            *)
(* SpecSkipping a notebook run in order with any of its cells left out.    *)
(* SpecPooling  the pooling model of Workshop 2 and the flows put to it.   *)
(* SpecMarginal the linear programme of Workshop 1a, its marginal prices   *)
(*              and the re-solve that checks them.                         *)
(* SpecWorkshop2     the exercise notebook of Workshop 2, whose cells      *)
(*              define functions and are run in any order, again and again.*)
(***************************************************************************)
EXTENDS Integers, Sequences, FiniteSets, TLC

VARIABLES
    nb,        \* the notebook the kernel runs
    os_name,   \* what platform.system() returns on this machine
    cell,      \* index of the code cell last started (0: none yet)
    stmt,      \* index of the statement of that cell to execute next
    phase,     \* "idle" between cells, "exec" inside a cell
    setup_pc,  \* position inside setup_solver (0: not in the call)
    xbit,      \* solver files whose executable bit os.system has set
    paths,     \* ipopt_executable, cbc_executable, bonmin_executable ("" unbound)
    objs,      \* the model objects bound to the names model and m
    globals,   \* plain global names that are bound
    factory,   \* the solver object last built by SolverFactory ("none")
    call,      \* "idle", or "running" while solver.solve has not come back
    results,   \* termination condition held by the name results ("none")
    trace,     \* every statement executed so far, in order
    rng,       \* per kernel: the state of numpy's global generator
    inst,      \* per kernel: what GenerateInstance last returned, and how
    flm,       \* the facility location model and the assignment proposed
    form,      \* the Workshop 1b formulation under study and the point tried
    sto,       \* the Workshop 5 model built and the values put to it
    pool,      \* the Workshop 2 pooling model and the flows put to it
    lp,        \* the Workshop 1a linear programme and its marginal prices
    w2         \* the kernel of the Workshop 2 exercise notebook

kernelVars == <<nb, os_name, cell, stmt, phase, setup_pc, xbit, paths, objs,
                globals, factory, call, results, trace>>

studyVars == <<rng, inst, flm, form, sto, pool, lp, w2>>

vars == <<kernelVars, studyVars>>

-----------------------------------------------------------------------------
(* The notebooks' code cells, statement by statement.                      *)

St(op, nm, at) == [op |-> op, nm |-> nm, at |-> at]

Cell(line, body) == [line |-> line, compiles |-> TRUE, body |-> body]

\* A cell Python refuses to compile ("x = pass"): none of it is executed.
BadCell(line) == [line |-> line, compiles |-> FALSE, body |-> <<>>]

SetupCell(line) == Cell(line, <<St("setup", "", "")>>)

\* Workshop 4 (facility location).
Workshop4 ==
    << SetupCell(32),
       Cell(116, <<St("set", "GenerateInstance", "")>>),
       Cell(146, <<St("set", "CreateFacilityLocationModel", "")>>),
       Cell(189, <<St("set", "ShowSolution", "")>>),
       Cell(222, <<St("use", "GenerateInstance", ""),
                   St("set", "service", ""),
                   St("use", "ShowSolution", ""),
                   St("plain", "", "plot")>>),
       Cell(242, <<St("use", "CreateFacilityLocationModel", ""),
                   St("use", "service", ""),
                   St("new", "model", ""),
                   St("attr", "model", "facilities"),
                   St("attr", "model", "customers"),
                   St("var", "model", "x"),
                   St("var", "model", "y"),
                   St("obj", "model", "obj"),
                   St("con", "model", "ChooseOneFacility"),
                   St("con", "model", "ServeIfOpen"),
                   St("factory", "cbc_executable", "cbc"),
                   St("solve", "model", ""),
                   St("read", "model", "x"),
                   St("read", "model", "y"),
                   St("use", "ShowSolution", ""),
                   St("plain", "", "plot")>>) >>

\* Workshop 1a (src/unnamed/part_000): introduction to Pyomo.
Workshop1a ==
    << SetupCell(25),
       \* 2a: unconstrained problem
       Cell(76, <<St("new", "model", ""),
                  St("var", "model", "x1"),
                  St("var", "model", "x2"),
                  St("obj", "model", "obj"),
                  St("factory", "ipopt_executable", "ipopt"),
                  St("solve", "model", ""),
                  St("read", "model", "x1"),
                  St("read", "model", "x2"),
                  St("read", "model", "obj")>>),
       Cell(104, <<St("plain", "", "contour"),
                   St("read", "model", "x1"),
                   St("read", "model", "x2"),
                   St("plain", "", "plot")>>),
       \* 2b: the objective and the constraint are left to the student
       Cell(173, <<St("new", "model", ""),
                   St("var", "model", "x1"),
                   St("var", "model", "x2"),
                   St("factory", "ipopt_executable", "ipopt"),
                   St("solve", "model", ""),
                   St("read", "model", "x1"),
                   St("read", "model", "x2"),
                   St("read", "model", "obj")>>),
       Cell(211, <<St("plain", "", "contour"),
                   St("read", "model", "x1"),
                   St("read", "model", "x2"),
                   St("plain", "", "plot")>>),
       \* 2c: the objective and both constraints are left to the student
       Cell(303, <<St("new", "model", ""),
                   St("var", "model", "x1"),
                   St("var", "model", "x2"),
                   St("factory", "ipopt_executable", "ipopt"),
                   St("solve", "model", ""),
                   St("read", "model", "x1"),
                   St("read", "model", "x2"),
                   St("read", "model", "obj")>>),
       Cell(343, <<St("plain", "", "contour"),
                   St("read", "model", "x1"),
                   St("read", "model", "x2"),
                   St("plain", "", "plot")>>),
       Cell(462, <<St("set", "plot_filled_region", ""),
                   St("plain", "", "interact")>>),
       \* 3a: "model.constraint1 = pass"
       BadCell(591),
       Cell(639, <<St("set", "plot_feasible_region", ""),
                   St("plain", "", "display")>>),
       \* 3c: marginal prices
       Cell(695, <<St("read", "model", "dual"),
                   St("set", "dual_1", ""),
                   St("read", "model", "dual"),
                   St("set", "dual_2", ""),
                   St("use", "dual_1", ""),
                   St("use", "dual_2", "")>>),
       \* 3d: objective recalculated from the marginal price
       Cell(717, <<St("read", "model", "obj"),
                   St("set", "change_in_constraint_2", ""),
                   St("use", "dual_2", ""),
                   St("set", "change_in_objective", ""),
                   St("read", "model", "obj"),
                   St("set", "new_obj_value", "")>>),
       Cell(782, <<>>) >>

\* Workshop 1b (src/unnamed/part_001): MILP exercises.
Workshop1b ==
    << SetupCell(25),
       \* 2a: "model.y1 = Var(within=Binary)" with no model created before it
       Cell(141, <<St("var", "model", "y1"),
                   St("var", "model", "y2"),
                   St("factory", "cbc_executable", "cbc"),
                   St("solve", "model", "")>>),
       Cell(249, <<>>),
       Cell(356, <<St("set", "c_y", ""),
                   St("set", "c_x", "")>>) >>

\* Workshop 2, worked version (src/unnamed/part_002): the pooling problem.
Workshop2Pool ==
    << SetupCell(32),
       Cell(101, <<St("set", "customers", ""),
                   St("set", "suppliers", ""),
                   St("set", "local_suppliers", ""),
                   St("set", "remote_suppliers", ""),
                   St("use", "customers", ""),
                   St("use", "local_suppliers", ""),
                   St("use", "remote_suppliers", "")>>),
       Cell(139, <<St("set", "q", ""),
                   St("new", "model", ""),
                   St("use", "local_suppliers", ""),
                   St("attr", "model", "L"),
                   St("use", "customers", ""),
                   St("attr", "model", "C"),
                   St("attr", "model", "L2C"),
                   St("var", "model", "x"),
                   St("obj", "model", "profit"),
                   St("con", "model", "demand"),
                   St("con", "model", "quality")>>),
       Cell(189, <<St("factory", "cbc_executable", "cbc"),
                   St("solve", "model", ""),
                   St("read", "model", "profit"),
                   St("read", "model", "x"),
                   St("use", "suppliers", ""),
                   St("plain", "", "print")>>),
       Cell(293, <<St("new", "m", ""),
                   St("use", "local_suppliers", ""),
                   St("attr", "m", "L"),
                   St("use", "remote_suppliers", ""),
                   St("attr", "m", "R"),
                   St("use", "customers", ""),
                   St("attr", "m", "C"),
                   St("var", "m", "x"),
                   St("var", "m", "y"),
                   St("var", "m", "z"),
                   St("var", "m", "f"),
                   St("obj", "m", "profit"),
                   St("con", "m", "customer_demand"),
                   St("con", "m", "pool_balance"),
                   St("con", "m", "pool_quality"),
                   St("con", "m", "customer_quality"),
                   St("factory", "bonmin_executable", "bonmin"),
                   St("solve", "m", "results"),
                   St("read", "m", "profit")>>) >>

\* Variant: section d recomputes constraints_violated after its own solve,
\* as section b does.
Workshop5SectionDRecounts ==
    Cell(303, <<St("new", "model", ""),
                St("var", "model", "x1"),
                St("var", "model", "x2"),
                St("use", "all_samples", ""),
                St("var", "model", "y"),
                St("use", "importance_factors", ""),
                St("obj", "model", "objective_rule"),
                St("set", "M", ""),
                St("con", "model", "constraints"),
                St("con", "model", "sum_y_constraint"),
                St("factory", "cbc_executable", "cbc"),
                St("solve", "model", "results"),
                St("read", "model", "y"),
                St("set", "constraints_violated", ""),
                St("read", "model", "x1"),
                St("read", "model", "x2"),
                St("read", "model", "objective_rule"),
                St("use", "constraints_violated", "")>>)

\* Workshop 5, section d: the 110-sample importance-sampling model.
Workshop5SectionD ==
    Cell(303, <<St("new", "model", ""),
                St("var", "model", "x1"),
                St("var", "model", "x2"),
                St("use", "all_samples", ""),
                St("var", "model", "y"),
                St("use", "importance_factors", ""),
                St("obj", "model", "objective_rule"),
                St("set", "M", ""),
                St("con", "model", "constraints"),
                St("con", "model", "sum_y_constraint"),
                St("factory", "cbc_executable", "cbc"),
                St("solve", "model", "results"),
                St("read", "model", "x1"),
                St("read", "model", "x2"),
                St("read", "model", "objective_rule"),
                St("use", "constraints_violated", "")>>)

\* Workshop 5: optimisation under uncertainty.
Workshop5 ==
    << SetupCell(25),
       Cell(88, <<St("set", "n_samples", ""),
                  St("set", "random_samples", ""),
                  St("set", "random_sample_list", ""),
                  St("plain", "", "plot")>>),
       \* b: the 100-sample stochastic model
       Cell(156, <<St("new", "model", ""),
                   St("var", "model", "x1"),
                   St("var", "model", "x2"),
                   St("use", "n_samples", ""),
                   St("var", "model", "y"),
                   St("use", "random_sample_list", ""),
                   St("obj", "model", "objective_rule"),
                   St("set", "M", ""),
                   St("con", "model", "constraints"),
                   St("con", "model", "sum_y_constraint"),
                   St("factory", "bonmin_executable", "bonmin"),
                   St("solve", "model", "results"),
                   St("read", "model", "y"),
                   St("set", "constraints_violated", ""),
                   St("read", "model", "x1"),
                   St("read", "model", "x2"),
                   St("read", "model", "objective_rule"),
                   St("use", "constraints_violated", "")>>),
       Cell(234, <<St("use", "random_samples", ""),
                   St("set", "all_samples", ""),
                   St("set", "importance_factors", ""),
                   St("set", "sample_probability_importance_pairs", ""),
                   St("plain", "", "plot")>>),
       \* d: the 110-sample importance-sampling model
       Workshop5SectionD,
       \* 3: the robust model, solved by PyROS with load_solution=False
       Cell(371, <<St("new", "model", ""),
                   St("var", "model", "x1"),
                   St("var", "model", "x2"),
                   St("attr", "model", "a"),
                   St("obj", "model", "obj"),
                   St("con", "model", "constr"),
                   St("factory", "", "pyros"),
                   St("solve", "model", "results"),
                   St("print_result", "results", "final_objective_value"),
                   St("print_status", "results", "pyros_termination_condition")>>) >>

Notebooks == {"part_000", "part_001", "part_002", "Workshop_4", "Workshop_5"}

Program(n) ==
    CASE n = "part_000" -> Workshop1a
      [] n = "part_001" -> Workshop1b
      [] n = "part_002" -> Workshop2Pool
      [] n = "Workshop_4" -> Workshop4
      [] n = "Workshop_5" -> Workshop5

-----------------------------------------------------------------------------
(* setup_solver                                                            *)

Platforms == {"Windows", "Linux", "Darwin"}

ExecutableNames == <<"ipopt_executable", "cbc_executable", "bonmin_executable">>

WindowsPaths == <<"solver/ipopt.exe", "solver/cbc.exe", "solver/ampl.mswin64/bonmin.exe">>

LinuxPaths == <<"solver/ipopt", "solver/cbc", "solver/bonmin">>

\* Variant: the chmod of cbc issued before the chmod of ipopt.
LinuxChmodSwapped == <<"solver/cbc", "solver/ipopt", "solver/bonmin">>

\* The files of the three os.system("chmod +x ...") calls, in program order.
LinuxChmod == <<"solver/ipopt", "solver/cbc", "solver/bonmin">>

Unbound == [n \in {ExecutableNames[i] : i \in 1..3} |-> ""]

\* ipopt_executable, cbc_executable, bonmin_executable = <the returned tuple>
Unpack(tuple) == [n \in DOMAIN Unbound |->
                    LET i == CHOOSE k \in 1..3 : ExecutableNames[k] = n IN tuple[i]]

-----------------------------------------------------------------------------
(* Model objects                                                           *)

ModelNames == {"model", "m"}

NoModel == [bound |-> FALSE, vars |-> {}, objectives |-> {}, cons |-> {},
            other |-> {}, solve |-> "none", loaded |-> FALSE]

\* ConcreteModel()
EmptyModel == [NoModel EXCEPT !.bound = TRUE]

\* Variant: an Objective component filed with the constraints.
AddComponentMisfiled(mdl, op, at) ==
    CASE op = "var"  -> [mdl EXCEPT !.vars = @ \cup {at}]
      [] op = "obj"  -> [mdl EXCEPT !.cons = @ \cup {at}]
      [] op = "con"  -> [mdl EXCEPT !.cons = @ \cup {at}]
      [] op = "attr" -> [mdl EXCEPT !.other = @ \cup {at}]

\* model.<at> = Var(...) | Objective(...) | Constraint(...) | Set/Param/Suffix(...)
AddComponent(mdl, op, at) ==
    CASE op = "var"  -> [mdl EXCEPT !.vars = @ \cup {at}]
      [] op = "obj"  -> [mdl EXCEPT !.objectives = @ \cup {at}]
      [] op = "con"  -> [mdl EXCEPT !.cons = @ \cup {at}]
      [] op = "attr" -> [mdl EXCEPT !.other = @ \cup {at}]

Components(mdl) == mdl.vars \cup mdl.objectives \cup mdl.cons \cup mdl.other

TerminationConditions == {"optimal", "infeasible", "maxIterations"}

-----------------------------------------------------------------------------
(* The kernel                                                              *)

Body == Program(nb)[cell].body

Executing == phase = "exec" /\ cell >= 1 /\ stmt <= Len(Body)

CurStmt == Body[stmt]

At(ops) == Executing /\ CurStmt.op \in ops

Ev(op, nm, at, res, n) ==
    [c |-> cell, s |-> stmt, op |-> op, nm |-> nm, at |-> at, res |-> res, n |-> n]

\* The statement ran to its end: control moves to the next one of the cell.
Finish(ev) ==
    /\ stmt' = stmt + 1
    /\ trace' = Append(trace, ev)
    /\ UNCHANGED <<cell, phase>>

\* The statement raised: no cell has a try block, so the cell ends there.
Raise(ev) ==
    /\ phase' = "idle"
    /\ trace' = Append(trace, ev)
    /\ UNCHANGED <<cell, stmt>>

NoInstance == [made |-> FALSE]

NoModelBuilt == [built |-> FALSE]

NoFormulation == [study |-> "none"]

GeneratorsOff == rng = <<>> /\ inst = <<>>

FacilityOff == flm = NoModelBuilt

FormulationsOff == form = NoFormulation

NoStochastic == [built |-> "none"]

NoPool == [built |-> FALSE]

NoLP == [solved |-> FALSE]

UncertaintyOff == sto = NoStochastic

PoolingOff == pool = NoPool

MarginalOff == lp = NoLP

NoWorkshop2 == [started |-> FALSE]

Workshop2Off == w2 = NoWorkshop2

KernelOff ==
    /\ nb = "none"
    /\ os_name = "none"
    /\ cell = 0
    /\ stmt = 0
    /\ phase = "idle"
    /\ setup_pc = 0
    /\ xbit = {}
    /\ paths = Unbound
    /\ objs = [n \in ModelNames |-> NoModel]
    /\ globals = {}
    /\ factory = "none"
    /\ call = "idle"
    /\ results = "none"
    /\ trace = <<>>

Init ==
    /\ GeneratorsOff /\ FacilityOff /\ FormulationsOff
    /\ UncertaintyOff /\ PoolingOff /\ MarginalOff /\ Workshop2Off
    /\ nb \in Notebooks
    /\ os_name \in Platforms
    /\ cell = 0
    /\ stmt = 0
    /\ phase = "idle"
    /\ setup_pc = 0
    /\ xbit = {}
    /\ paths = Unbound
    /\ objs = [n \in ModelNames |-> NoModel]
    /\ globals = {}
    /\ factory = "none"
    /\ call = "idle"
    /\ results = "none"
    /\ trace = <<>>

RunNextCell ==
    /\ phase = "idle"
    /\ cell < Len(Program(nb))
    /\ Program(nb)[cell + 1].compiles
    /\ cell' = cell + 1
    /\ stmt' = 1
    /\ phase' = "exec"
    /\ UNCHANGED <<studyVars, nb, os_name, setup_pc, xbit, paths, objs, globals, factory,
                   call, results, trace>>

CellSyntaxError ==
    /\ phase = "idle"
    /\ cell < Len(Program(nb))
    /\ ~Program(nb)[cell + 1].compiles
    /\ cell' = cell + 1
    /\ stmt' = 1
    /\ trace' = Append(trace, [c |-> cell + 1, s |-> 0, op |-> "cell", nm |-> "", at |-> "",
                               res |-> "SyntaxError", n |-> 0])
    /\ UNCHANGED <<studyVars, nb, os_name, phase, setup_pc, xbit, paths, objs, globals,
                   factory, call, results>>

EndCell ==
    /\ phase = "exec"
    /\ stmt > Len(Body)
    /\ phase' = "idle"
    /\ UNCHANGED <<studyVars, nb, os_name, cell, stmt, setup_pc, xbit, paths, objs, globals,
                   factory, call, results, trace>>

\* ... = setup_solver(): os_name = platform.system()
SetupSolverCall ==
    /\ At({"setup"})
    /\ setup_pc = 0
    /\ setup_pc' = 1
    /\ UNCHANGED <<studyVars, nb, os_name, cell, stmt, phase, xbit, paths, objs, globals,
                   factory, call, results, trace>>

SetupSolverWindows ==
    /\ At({"setup"})
    /\ setup_pc = 1
    /\ os_name = "Windows"
    /\ paths' = Unpack(WindowsPaths)
    /\ setup_pc' = 0
    /\ Finish(Ev("setup_return", "", "", "Windows", 0))
    /\ UNCHANGED <<studyVars, nb, os_name, xbit, objs, globals, factory, call, results>>

SetupSolverChmod ==
    /\ At({"setup"})
    /\ setup_pc \in 1..3
    /\ os_name = "Linux"
    /\ xbit' = xbit \cup {LinuxChmod[setup_pc]}
    /\ trace' = Append(trace, Ev("os.system", "", LinuxChmod[setup_pc], "", 0))
    /\ setup_pc' = setup_pc + 1
    /\ UNCHANGED <<studyVars, nb, os_name, cell, stmt, phase, paths, objs, globals, factory,
                   call, results>>

SetupSolverLinux ==
    /\ At({"setup"})
    /\ setup_pc = 4
    /\ os_name = "Linux"
    /\ paths' = Unpack(LinuxPaths)
    /\ setup_pc' = 0
    /\ Finish(Ev("setup_return", "", "", "Linux", 0))
    /\ UNCHANGED <<studyVars, nb, os_name, xbit, objs, globals, factory, call, results>>

\* Neither branch is taken: the function returns None and the unpacking raises.
SetupSolverOther ==
    /\ At({"setup"})
    /\ setup_pc = 1
    /\ os_name \notin {"Windows", "Linux"}
    /\ setup_pc' = 0
    /\ Raise(Ev("setup_return", "", "", "TypeError", 0))
    /\ UNCHANGED <<studyVars, nb, os_name, xbit, paths, objs, globals, factory, call, results>>

ExecNew ==
    /\ At({"new"})
    /\ objs' = [objs EXCEPT ![CurStmt.nm] = EmptyModel]
    /\ Finish(Ev("new", CurStmt.nm, "", "", 0))
    /\ UNCHANGED <<studyVars, nb, os_name, setup_pc, xbit, paths, globals, factory, call, results>>

ExecAdd ==
    /\ At({"var", "obj", "con", "attr"})
    /\ IF objs[CurStmt.nm].bound
         THEN /\ objs' = [objs EXCEPT ![CurStmt.nm] = AddComponent(@, CurStmt.op, CurStmt.at)]
              /\ Finish(Ev(CurStmt.op, CurStmt.nm, CurStmt.at, "", 0))
         ELSE /\ Raise(Ev(CurStmt.op, CurStmt.nm, CurStmt.at, "NameError", 0))
              /\ UNCHANGED objs
    /\ UNCHANGED <<studyVars, nb, os_name, setup_pc, xbit, paths, globals, factory, call, results>>

\* solver = SolverFactory(<at>, executable=<nm>)
ExecFactory ==
    /\ At({"factory"})
    /\ IF CurStmt.nm # "" /\ paths[CurStmt.nm] = ""
         THEN /\ Raise(Ev("factory", CurStmt.nm, CurStmt.at, "NameError", 0))
              /\ UNCHANGED factory
         ELSE /\ factory' = CurStmt.at
              /\ Finish(Ev("factory", CurStmt.nm, CurStmt.at, "", 0))
    /\ UNCHANGED <<studyVars, nb, os_name, setup_pc, xbit, paths, objs, globals, call, results>>

\* Variant: solve starts the solver and control goes on without waiting.
ExecSolveNoWait ==
    /\ At({"solve"})
    /\ call = "idle"
    /\ IF factory = "none" \/ ~objs[CurStmt.nm].bound
         THEN /\ Raise(Ev("solve_call", CurStmt.nm, factory, "NameError", 0))
              /\ UNCHANGED <<objs, call>>
         ELSE /\ call' = "running"
              /\ objs' = [objs EXCEPT ![CurStmt.nm].solve = "running"]
              /\ Finish(Ev("solve_call", CurStmt.nm, factory, "",
                           Cardinality(objs[CurStmt.nm].objectives)))
    /\ UNCHANGED <<studyVars, nb, os_name, setup_pc, xbit, paths, globals, factory, results>>

\* solver.solve(<nm>): the call is entered and the kernel waits for it.
ExecSolve ==
    /\ At({"solve"})
    /\ call = "idle"
    /\ IF factory = "none" \/ ~objs[CurStmt.nm].bound
         THEN /\ Raise(Ev("solve_call", CurStmt.nm, factory, "NameError", 0))
              /\ UNCHANGED <<objs, call>>
         ELSE /\ call' = "running"
              /\ objs' = [objs EXCEPT ![CurStmt.nm].solve = "running"]
              /\ trace' = Append(trace, Ev("solve_call", CurStmt.nm, factory, "",
                                           Cardinality(objs[CurStmt.nm].objectives)))
              /\ UNCHANGED <<cell, stmt, phase>>
    /\ UNCHANGED <<studyVars, nb, os_name, setup_pc, xbit, paths, globals, factory, results>>

\* Variant: the rest of the cell is skipped unless the solve was optimal.
AfterSolveChecked(tc) == IF tc = "optimal" THEN stmt + 1 ELSE Len(Body) + 1

\* Where control goes when the call comes back with termination condition tc.
AfterSolve(tc) == stmt + 1

\* The external solver terminated and solve returned, whatever the outcome.
SolverReturns ==
    /\ call = "running"
    /\ At({"solve"})
    /\ \E tc \in TerminationConditions, sol \in BOOLEAN :
         /\ tc = "optimal" => sol
         /\ objs' = [objs EXCEPT ![CurStmt.nm].solve = "returned",
                                 ![CurStmt.nm].loaded = sol /\ factory # "pyros"]
         /\ results' = IF CurStmt.at = "results" THEN tc ELSE results
         /\ stmt' = AfterSolve(tc)
         /\ trace' = Append(trace, Ev("solve_return", CurStmt.nm, factory, tc, 0))
    /\ call' = "idle"
    /\ UNCHANGED <<studyVars, nb, os_name, cell, phase, setup_pc, xbit, paths, globals, factory>>

\* The modelling library raised out of solve (no executable, a solver error).
SolverRaises ==
    /\ call = "running"
    /\ At({"solve"})
    /\ call' = "idle"
    /\ objs' = [objs EXCEPT ![CurStmt.nm].solve = "raised"]
    /\ Raise(Ev("solve_raise", CurStmt.nm, factory, "ApplicationError", 0))
    /\ UNCHANGED <<studyVars, nb, os_name, setup_pc, xbit, paths, globals, factory, results>>

\* model.<at>() or model.<at>.value, printed, plotted or stored.
ReadResult(mdl, at) ==
    IF ~mdl.bound THEN "NameError"
    ELSE IF at \notin Components(mdl) THEN "AttributeError"
    ELSE IF ~mdl.loaded THEN "ValueError"
    ELSE "value"

ExecRead ==
    /\ At({"read"})
    /\ LET r == ReadResult(objs[CurStmt.nm], CurStmt.at) IN
         IF r = "value"
           THEN Finish(Ev("read", CurStmt.nm, CurStmt.at, r, 0))
           ELSE Raise(Ev("read", CurStmt.nm, CurStmt.at, r, 0))
    /\ UNCHANGED <<studyVars, nb, os_name, setup_pc, xbit, paths, objs, globals, factory, call, results>>

ExecSet ==
    /\ At({"set"})
    /\ globals' = globals \cup {CurStmt.nm}
    /\ Finish(Ev("set", CurStmt.nm, "", "", 0))
    /\ UNCHANGED <<studyVars, nb, os_name, setup_pc, xbit, paths, objs, factory, call, results>>

ExecUse ==
    /\ At({"use"})
    /\ IF CurStmt.nm \in globals
         THEN Finish(Ev("use", CurStmt.nm, "", "value", 0))
         ELSE Raise(Ev("use", CurStmt.nm, "", "NameError", 0))
    /\ UNCHANGED <<studyVars, nb, os_name, setup_pc, xbit, paths, objs, globals, factory, call, results>>

ExecPlain ==
    /\ At({"plain"})
    /\ Finish(Ev("plain", "", CurStmt.at, "", 0))
    /\ UNCHANGED <<studyVars, nb, os_name, setup_pc, xbit, paths, objs, globals, factory, call, results>>

\* print(results.final_objective_value)
ExecPrintResult ==
    /\ At({"print_result"})
    /\ IF results = "none"
         THEN Raise(Ev("print_result", CurStmt.nm, CurStmt.at, "NameError", 0))
         ELSE Finish(Ev("print_result", CurStmt.nm, CurStmt.at, "value", 0))
    /\ UNCHANGED <<studyVars, nb, os_name, setup_pc, xbit, paths, objs, globals, factory, call, results>>

\* print(results.pyros_termination_condition)
ExecPrintStatus ==
    /\ At({"print_status"})
    /\ IF results = "none"
         THEN Raise(Ev("print_status", CurStmt.nm, CurStmt.at, "NameError", 0))
         ELSE Finish(Ev("print_status", CurStmt.nm, CurStmt.at, results, 0))
    /\ UNCHANGED <<studyVars, nb, os_name, setup_pc, xbit, paths, objs, globals, factory, call, results>>

Next ==
    \/ RunNextCell
    \/ CellSyntaxError
    \/ EndCell
    \/ SetupSolverCall
    \/ SetupSolverWindows
    \/ SetupSolverChmod
    \/ SetupSolverLinux
    \/ SetupSolverOther
    \/ ExecNew
    \/ ExecAdd
    \/ ExecFactory
    \/ ExecSolve
    \/ SolverReturns
    \/ SolverRaises
    \/ ExecRead
    \/ ExecSet
    \/ ExecUse
    \/ ExecPlain
    \/ ExecPrintResult
    \/ ExecPrintStatus

Spec == Init /\ [][Next]_vars

\* The next cell is passed over without being run.
SkipCell ==
    /\ phase = "idle"
    /\ cell < Len(Program(nb))
    /\ cell' = cell + 1
    /\ stmt' = 1
    /\ UNCHANGED <<studyVars, nb, os_name, phase, setup_pc, xbit, paths, objs, globals,
                   factory, call, results, trace>>

NextSkipping == Next \/ SkipCell

\* A notebook whose cells are run in order, any of them left out.
SpecSkipping == Init /\ [][NextSkipping]_vars

-----------------------------------------------------------------------------
(* Workshop 4: numpy's global generator and GenerateInstance               *)
(*                                                                         *)
(* The generator is numpy's, not the repository's: it is modelled as a     *)
(* deterministic generator whose whole state np.random.seed replaces.      *)

MaxEntropy == 1          \* generator states a fresh kernel may start in: 0..MaxEntropy
MaxPriorDraws == 1       \* draws made before the cell under study is run
MaxFacilities == 2       \* num_facilities of an unseeded call
MaxCustomers == 2        \* num_customers of an unseeded call

Kernels == {1, 2}

RngNext(s) == (s * 75 + 74) % 65537

\* Variant: the seed is mixed into the generator's state instead of replacing it.
ReseedMixed(s, seed) == (s + seed) % 65537

\* np.random.seed(seed)
Reseed(s, seed) == seed % 65537

\* np.random.randint(low, high, n) from state s: the n values and the new state.
RECURSIVE RandInt(_, _, _, _)
RandInt(s, low, high, n) ==
    IF n = 0 THEN [vals |-> <<>>, rng |-> s]
    ELSE LET r == RandInt(s, low, high, n - 1)
             t == RngNext(r.rng)
         IN [vals |-> Append(r.vals, low + (t % (high - low))), rng |-> t]

GenerateInstance(num_facilities, num_customers, s) ==
    LET xC == RandInt(s, 0, 100, num_customers)
        yC == RandInt(xC.rng, 0, 100, num_customers)
        xF == RandInt(yC.rng, 0, 100, num_facilities)
        yF == RandInt(xF.rng, 0, 100, num_facilities)
    IN [made |-> TRUE,
        installation |-> [j \in 1..num_facilities |-> 1500],
        service |-> [i \in 1..num_customers |-> [j \in 1..num_facilities |->
                       (xC.vals[i] - xF.vals[j]) * (xC.vals[i] - xF.vals[j])
                     + (yC.vals[i] - yF.vals[j]) * (yC.vals[i] - yF.vals[j])]],
        xC |-> xC.vals, yC |-> yC.vals, xF |-> xF.vals, yF |-> yF.vals,
        rng |-> yF.rng]

InitInstance ==
    /\ KernelOff /\ FacilityOff /\ FormulationsOff
    /\ UncertaintyOff /\ PoolingOff /\ MarginalOff /\ Workshop2Off
    /\ rng \in [Kernels -> [state : 0..MaxEntropy, drawn : {0}]]
    /\ inst = [k \in Kernels |-> NoInstance]

\* Anything run earlier in the kernel that drew from the global generator.
PriorDraw(k) ==
    /\ rng[k].drawn < MaxPriorDraws
    /\ rng' = [rng EXCEPT ![k] = [state |-> RngNext(@.state), drawn |-> @.drawn + 1]]
    /\ UNCHANGED <<kernelVars, inst, flm, form, sto, pool, lp, w2>>

\* Cell d: np.random.seed(2026); ... = GenerateInstance(5, 20)
RunSeedingCell(k) ==
    LET g == GenerateInstance(5, 20, Reseed(rng[k].state, 2026)) IN
    /\ inst' = [inst EXCEPT ![k] = g @@ [seeded |-> TRUE, after |-> rng[k].drawn]]
    /\ rng' = [rng EXCEPT ![k].state = g.rng]
    /\ UNCHANGED <<kernelVars, flm, form, sto, pool, lp, w2>>

\* GenerateInstance called on its own, from whatever state the generator is in.
CallGenerateInstance(k) ==
    /\ ~inst[k].made
    /\ \E nf \in 1..MaxFacilities, nc \in 1..MaxCustomers :
         LET g == GenerateInstance(nf, nc, rng[k].state) IN
         /\ inst' = [inst EXCEPT ![k] = g @@ [seeded |-> FALSE, after |-> rng[k].drawn]]
         /\ rng' = [rng EXCEPT ![k].state = g.rng]
    /\ UNCHANGED <<kernelVars, flm, form, sto, pool, lp, w2>>

NextInstance ==
    \/ \E k \in Kernels : PriorDraw(k)
    \/ \E k \in Kernels : RunSeedingCell(k)
    \/ \E k \in Kernels : CallGenerateInstance(k)

SpecInstance == InitInstance /\ [][NextInstance]_vars

-----------------------------------------------------------------------------
(* Workshop 4: CreateFacilityLocationModel                                 *)
(*                                                                         *)
(* The model is the object the function returns: its two index sets, the   *)
(* domain of its variables, its objective and its two constraint families. *)
(* The solver is not the repository's; what is modelled of it is that it   *)
(* is handed an assignment of x and y and the model says whether the       *)
(* assignment is within the domains and satisfies every constraint.        *)

Binary == {0, 1}

\* Values an assignment handed to the model may give a variable.
Values == -1 .. 1

RECURSIVE Sum(_, _)
Sum(f, S) ==
    IF S = {} THEN 0
    ELSE LET e == CHOOSE e \in S : TRUE IN f[e] + Sum(f, S \ {e})

\* Variant: a customer is served by at least one facility.
ChooseAtLeastOneFacility(mdl, y, i) ==
    Sum([j \in mdl.facilities |-> y[<<i, j>>]], mdl.facilities) >= 1

ChooseOneFacility(mdl, y, i) ==
    Sum([j \in mdl.facilities |-> y[<<i, j>>]], mdl.facilities) = 1

\* Variant: the inequality the other way round.
OpenIfServe(x, y, i, j) == x[j] <= y[<<i, j>>]

ServeIfOpen(x, y, i, j) == y[<<i, j>>] <= x[j]

obj(mdl, x, y) ==
      Sum([j \in mdl.facilities |-> mdl.installation[j + 1] * x[j]], mdl.facilities)
    + Sum([p \in mdl.customers \X mdl.facilities |->
               mdl.service[p[1] + 1][p[2] + 1] * y[p]],
          mdl.customers \X mdl.facilities)

WithinDomain(x, y) ==
    /\ \A j \in DOMAIN x : x[j] \in Binary
    /\ \A p \in DOMAIN y : y[p] \in Binary

Feasible(mdl, x, y) ==
    /\ WithinDomain(x, y)
    /\ \A i \in mdl.customers : ChooseOneFacility(mdl, y, i)
    /\ \A i \in mdl.customers : \A j \in mdl.facilities : ServeIfOpen(x, y, i, j)

InitFacility ==
    /\ KernelOff /\ FacilityOff /\ FormulationsOff
    /\ UncertaintyOff /\ PoolingOff /\ MarginalOff /\ Workshop2Off
    /\ rng = <<>>
    /\ \E nf \in 1..MaxFacilities, nc \in 1..MaxCustomers :
         inst = <<GenerateInstance(nf, nc, Reseed(0, 2026))>>

\* model = CreateFacilityLocationModel(installation, service)
CreateFacilityLocationModel ==
    /\ ~flm.built
    /\ flm' = [built |-> TRUE, assigned |-> FALSE,
               facilities |-> 0 .. (Len(inst[1].installation) - 1),
               customers |-> 0 .. (Len(inst[1].service) - 1),
               installation |-> inst[1].installation,
               service |-> inst[1].service]
    /\ UNCHANGED <<kernelVars, rng, inst, form, sto, pool, lp, w2>>

\* An assignment of x and y is put to the model.
Assign ==
    /\ flm.built /\ ~flm.assigned
    /\ \E x \in [flm.facilities -> Values],
          y \in [flm.customers \X flm.facilities -> Values] :
         flm' = [flm EXCEPT !.assigned = TRUE] @@
                [x |-> x, y |-> y,
                 feasible |-> Feasible(flm, x, y),
                 cost |-> obj(flm, x, y)]
    /\ UNCHANGED <<kernelVars, rng, inst, form, sto, pool, lp, w2>>

NextFacility == CreateFacilityLocationModel \/ Assign

SpecFacility == InitFacility /\ [][NextFacility]_vars

-----------------------------------------------------------------------------
(* Workshop 1b: the formulations written in the markdown cells             *)
(*                                                                         *)
(* Each formulation is evaluated as it is written.  The continuous         *)
(* variables take whole values up to a bound; the binaries are tried one   *)
(* value at a time; the state keeps what has been tried, and whether x was *)
(* admitted or which objective values the feasible tries gave.             *)

MaxX == 25               \* the semi-continuous x ranges over 0..MaxX

\* x = 0  \/  10 <= x <= 20
SemiContinuous(x) == x = 0 \/ (10 <= x /\ x <= 20)

\* 10y <= x,  20y <= x
Reformulation(x, y) == 10 * y <= x /\ 20 * y <= x

f1(x1) == IF x1 > 0 THEN 150 + 7 * x1 ELSE 0

f2(x2) == IF x2 > 0 THEN 110 + 9 * x2 ELSE 0

\* x1 + x2 <= 8,  x1 <= 3,  x2 <= 8,  x1, x2 >= 0
FixedCostDomain == {p \in (0..3) \X (0..8) : p[1] + p[2] <= 8}

\* minimize 7 x1 + 9 x2 + 150 y1 + 110 y1
FixedCostObjective(x1, x2, y1, y2) == 7 * x1 + 9 * x2 + 150 * y1 + 110 * y1

\* x1 + x2 <= 8,  x1 <= 3 y1,  x2 <= 8 y2
FixedCostConstraints(x1, x2, y1, y2) ==
    /\ x1 + x2 <= 8
    /\ x1 <= 3 * y1
    /\ x2 <= 8 * y2

\* The least of a non-empty set of objective values.
Minimum(S) == CHOOSE m \in S : \A n \in S : m <= n

\* 0 <= x1 <= 60, 0 <= x2 <= 30: the end points of both ranges.
BlendingCorners == {0, 60} \X {0, 30}

\* Variant: the upper linking bound x3 + 10 (y3 - 1) left out.
BlendingConstraintsLowerOnly(x1, x2, x3, z3, y3) ==
    /\ 2 * x1 + x2 + 7 * z3 <= 150
    /\ 10 * y3 <= z3 /\ z3 <= 20 * y3
    /\ x3 + 20 * (y3 - 1) <= z3

\* 2 x1 + x2 + 7 z3 <= 150,  10 y3 <= z3 <= 20 y3,
\* x3 + 20 (y3 - 1) <= z3 <= x3 + 10 (y3 - 1)
BlendingConstraints(x1, x2, x3, z3, y3) ==
    /\ 2 * x1 + x2 + 7 * z3 <= 150
    /\ 10 * y3 <= z3 /\ z3 <= 20 * y3
    /\ x3 + 20 * (y3 - 1) <= z3 /\ z3 <= x3 + 10 * (y3 - 1)

InitFormulations ==
    /\ KernelOff /\ GeneratorsOff /\ FacilityOff
    /\ UncertaintyOff /\ PoolingOff /\ MarginalOff /\ Workshop2Off
    /\ \/ \E x \in 0..MaxX :
            form = [study |-> "semi", x |-> x, tried |-> {}, admitted |-> FALSE]
       \/ \E p \in FixedCostDomain :
            form = [study |-> "fixed", x1 |-> p[1], x2 |-> p[2], tried |-> {},
                    values |-> {}]
       \/ \E c \in BlendingCorners, x3 \in 0..MaxX, z3 \in 0..MaxX :
            form = [study |-> "blend", x1 |-> c[1], x2 |-> c[2], x3 |-> x3,
                    z3 |-> z3, tried |-> {}, satisfied |-> {}]

\* One value of y is tried against the reformulation's constraints.
TryY(y) ==
    /\ form.study = "semi"
    /\ y \notin form.tried
    /\ form' = [form EXCEPT !.tried = @ \cup {y},
                            !.admitted = @ \/ Reformulation(form.x, y)]
    /\ UNCHANGED <<kernelVars, rng, inst, flm, sto, pool, lp, w2>>

\* One value of (y1, y2) is tried in the fixed-cost MILP.
TryFixedCost(y1, y2) ==
    /\ form.study = "fixed"
    /\ <<y1, y2>> \notin form.tried
    /\ form' = [form EXCEPT
                  !.tried = @ \cup {<<y1, y2>>},
                  !.values = IF FixedCostConstraints(form.x1, form.x2, y1, y2)
                             THEN @ \cup {FixedCostObjective(form.x1, form.x2, y1, y2)}
                             ELSE @]
    /\ UNCHANGED <<kernelVars, rng, inst, flm, sto, pool, lp, w2>>

\* The binary y3 is set to one value in the blending reformulation.
SetY3(y3) ==
    /\ form.study = "blend"
    /\ y3 \notin form.tried
    /\ form' = [form EXCEPT
                  !.tried = @ \cup {y3},
                  !.satisfied =
                      IF BlendingConstraints(form.x1, form.x2, form.x3, form.z3, y3)
                      THEN @ \cup {y3} ELSE @]
    /\ UNCHANGED <<kernelVars, rng, inst, flm, sto, pool, lp, w2>>

NextFormulations ==
    \/ \E y \in Binary : TryY(y)
    \/ \E y1, y2 \in Binary : TryFixedCost(y1, y2)
    \/ \E y3 \in Binary : SetY3(y3)

SpecFormulations == InitFormulations /\ [][NextFormulations]_vars

-----------------------------------------------------------------------------
(* Workshop 5: the two stochastic models and the robust model              *)
(*                                                                         *)
(* What is modelled of each model object is the declaration of x1 and, for *)
(* the stochastic models, of y and sum_y_constraint.  A value is put to    *)
(* x1, and a vector to y, and the model says whether it admits them.  The  *)
(* vectors put to y are those whose first k entries are 1.                 *)

MaxX1 == 12              \* values put to x1 range over -1..MaxX1

n_samples == 100

StochasticModels == {"b", "d", "robust"}

\* len(tail_samples), len(all_samples)
LenAllSamples == n_samples + 10

\* The index set of model.y: range(n_samples), range(len(all_samples)).
YIndex(m) ==
    CASE m = "b" -> 0 .. (n_samples - 1)
      [] m = "d" -> 0 .. (LenAllSamples - 1)
      [] m = "robust" -> {}

\* sum(f[i] for i in range(lo, hi + 1)), halving the range.
RECURSIVE SumRange(_, _, _)
SumRange(f, lo, hi) ==
    IF lo > hi THEN 0
    ELSE IF lo = hi THEN f[lo]
    ELSE LET mid == (lo + hi) \div 2 IN SumRange(f, lo, mid) + SumRange(f, mid + 1, hi)

PositiveReals(v) == v > 0

\* model.x1 = Var(bounds=(1, 10), domain=PositiveReals), in all three models
X1Admissible(m, v) == PositiveReals(v) /\ 1 <= v /\ v <= 10

\* model.sum_y_constraint = Constraint(expr=sum(model.y[i] ...) >= 99 | >= 110)
sum_y_constraint(m, y) ==
    CASE m = "b" -> SumRange(y, 0, n_samples - 1) >= 99
      [] m = "d" -> SumRange(y, 0, LenAllSamples - 1) >= 110

InitUncertainty ==
    /\ KernelOff /\ GeneratorsOff /\ FacilityOff /\ FormulationsOff
    /\ UncertaintyOff /\ PoolingOff /\ MarginalOff /\ Workshop2Off

\* model = ConcreteModel(); model.x1 = ...; model.y = ...; ...
BuildStochasticModel(m) ==
    /\ sto.built = "none"
    /\ sto' = [built |-> m, x1set |-> FALSE, x1 |-> 0, x1ok |-> FALSE,
               yset |-> FALSE, y |-> <<>>, yok |-> FALSE]
    /\ UNCHANGED <<kernelVars, rng, inst, flm, form, pool, lp, w2>>

\* A value is put to x1.
PutX1(v) ==
    /\ sto.built # "none" /\ ~sto.x1set
    /\ sto' = [sto EXCEPT !.x1set = TRUE, !.x1 = v,
                          !.x1ok = X1Admissible(sto.built, v)]
    /\ UNCHANGED <<kernelVars, rng, inst, flm, form, pool, lp, w2>>

\* A binary vector with k ones is put to y.
PutY(k) ==
    /\ sto.built \in {"b", "d"} /\ ~sto.yset
    /\ k <= Cardinality(YIndex(sto.built))
    /\ LET y == [i \in YIndex(sto.built) |-> IF i < k THEN 1 ELSE 0] IN
         sto' = [sto EXCEPT !.yset = TRUE, !.y = y,
                            !.yok = sum_y_constraint(sto.built, y)]
    /\ UNCHANGED <<kernelVars, rng, inst, flm, form, pool, lp, w2>>

NextUncertainty ==
    \/ \E m \in StochasticModels : BuildStochasticModel(m)
    \/ \E v \in -1 .. MaxX1 : PutX1(v)
    \/ \E k \in 0 .. LenAllSamples : PutY(k)

SpecUncertainty == InitUncertainty /\ [][NextUncertainty]_vars

-----------------------------------------------------------------------------
(* Workshop 2: the pooling model                                           *)
(*                                                                         *)
(* Fat contents are in units of 0.0001 (0.045 is 450) so that the data and *)
(* the bounds of f are whole numbers; flows are whole numbers of litres.   *)
(* An assignment of x, y, z and f is put to the model, which says whether  *)
(* it is within the domains and bounds and satisfies every constraint.     *)

MaxFlow == 2             \* flows y[c] and z[r] put to the model range over 0..MaxFlow

\* suppliers[suppliers["location"] == "local"].index, ... == "remote"
LocalSuppliers == {"Farm A", "Farm B"}

RemoteSuppliers == {"Farm C", "Farm D"}

Customers == {"Customer A", "Customer B"}

SupplierFat == [r \in LocalSuppliers \cup RemoteSuppliers |->
                  CASE r = "Farm A" -> 450 [] r = "Farm B" -> 300
                    [] r = "Farm C" -> 330 [] r = "Farm D" -> 500]

CustomerFat == [c \in Customers |-> IF c = "Customer A" THEN 445 ELSE 300]

CustomerDemand == [c \in Customers |-> IF c = "Customer A" THEN 6000 ELSE 2500]

\* Values put to f: every multiple of 0.0005 from 0.0295 to 0.0515.
FValues == {5 * k : k \in 59 .. 103}

\* m.f = Var(bounds=(0.03, 0.051), domain=NonNegativeReals)
FWithinBounds(f) == f >= 0 /\ 300 <= f /\ f <= 510

customer_demand_rule(x, y, c) ==
    Sum([l \in LocalSuppliers |-> x[<<l, c>>]], LocalSuppliers) + y[c] <= CustomerDemand[c]

pool_balance_rule(y, z) == Sum(z, RemoteSuppliers) = Sum(y, Customers)

\* Variant: the fat contents of the remote farms are not weighted by their flows.
pool_quality_rule_unweighted(y, z, f) ==
    Sum([r \in RemoteSuppliers |-> SupplierFat[r]], RemoteSuppliers)
        = f * Sum(y, Customers)

pool_quality_rule(y, z, f) ==
    Sum([r \in RemoteSuppliers |-> SupplierFat[r] * z[r]], RemoteSuppliers)
        = f * Sum(y, Customers)

customer_quality_rule(x, y, f, c) ==
    f * y[c] + Sum([l \in LocalSuppliers |-> SupplierFat[l] * x[<<l, c>>]], LocalSuppliers)
        >= CustomerFat[c] * (Sum([l \in LocalSuppliers |-> x[<<l, c>>]], LocalSuppliers) + y[c])

PoolFeasible(x, y, z, f) ==
    /\ FWithinBounds(f)
    /\ \A c \in Customers : customer_demand_rule(x, y, c)
    /\ pool_balance_rule(y, z)
    /\ pool_quality_rule(y, z, f)
    /\ \A c \in Customers : customer_quality_rule(x, y, f, c)

InitPooling ==
    /\ KernelOff /\ GeneratorsOff /\ FacilityOff /\ FormulationsOff
    /\ UncertaintyOff /\ PoolingOff /\ MarginalOff /\ Workshop2Off

\* m = ConcreteModel(); m.L = ...; ...; m.customer_quality = ...
BuildPoolingModel ==
    /\ ~pool.built
    /\ pool' = [built |-> TRUE, assigned |-> FALSE]
    /\ UNCHANGED <<kernelVars, rng, inst, flm, form, sto, lp, w2>>

\* Values of x, y, z and f are put to the model.
AssignPool ==
    /\ pool.built /\ ~pool.assigned
    /\ \E x \in [LocalSuppliers \X Customers -> 0 .. 1],
          y \in [Customers -> 0 .. MaxFlow],
          z \in [RemoteSuppliers -> 0 .. MaxFlow],
          f \in FValues :
         pool' = [built |-> TRUE, assigned |-> TRUE, x |-> x, y |-> y, z |-> z,
                  f |-> f, feasible |-> PoolFeasible(x, y, z, f)]
    /\ UNCHANGED <<kernelVars, rng, inst, flm, form, sto, lp, w2>>

NextPooling == BuildPoolingModel \/ AssignPool

SpecPooling == InitPooling /\ [][NextPooling]_vars

-----------------------------------------------------------------------------
(* Workshop 1a, section 3: the linear programme and its marginal prices    *)
(*                                                                         *)
(* minimize -x1 - x2  s.t.  -x1 + x2 >= 0,  x1 <= x1_limit,                *)
(* x2 <= x2_limit, with the limits 2 and 3 of the notebook among those     *)
(* tried.  The solver is not the repository's: the optimum is found by     *)
(* enumerating the whole points of the feasible region, whose vertices are *)
(* whole, and the dual the solver hands back for a constraint is the       *)
(* change of the optimal objective per unit of its right-hand side.        *)

MaxLimit == 4            \* x1_limit and x2_limit range over 1..MaxLimit
MaxChange == 10          \* change_in_constraint_2 ranges over 1..MaxChange

\* model.x1 = Var(domain=PositiveReals), x1 <= x1_limit; the same for x2;
\* constraint  -x1 + x2 >= 0
LPFeasibleRegion(x1_limit, x2_limit) ==
    {p \in (1 .. x1_limit) \X (1 .. x2_limit) : -p[1] + p[2] >= 0}

\* minimize -x1 - x2
LPObjective(p) == -p[1] - p[2]

\* model.obj() after the solve
LPOptimum(x1_limit, x2_limit) ==
    LET R == LPFeasibleRegion(x1_limit, x2_limit)
    IN LPObjective(CHOOSE p \in R : \A q \in R : LPObjective(p) <= LPObjective(q))

\* model.dual[model.constraint1], model.dual[model.constraint2]
ImportedDual(x1_limit, x2_limit) ==
    << LPOptimum(x1_limit + 1, x2_limit) - LPOptimum(x1_limit, x2_limit),
       LPOptimum(x1_limit, x2_limit + 1) - LPOptimum(x1_limit, x2_limit) >>

dual_1(model_dual) == -1 * model_dual[1]

\* Variant: the imported dual taken as it comes, without the factor -1.
dual_2_as_imported(model_dual) == model_dual[2]

dual_2(model_dual) == -1 * model_dual[2]

change_in_objective(d2, change_in_constraint_2) == -d2 * change_in_constraint_2

new_obj_value(current, d2, change_in_constraint_2) ==
    current + change_in_objective(d2, change_in_constraint_2)

InitMarginal ==
    /\ KernelOff /\ GeneratorsOff /\ FacilityOff /\ FormulationsOff
    /\ UncertaintyOff /\ PoolingOff /\ MarginalOff /\ Workshop2Off

\* 3a: the model is built and solved, the duals imported.
SolveLP ==
    /\ ~lp.solved
    /\ \E x1_limit \in 1 .. MaxLimit, x2_limit \in 1 .. MaxLimit :
         lp' = [solved |-> TRUE, stage |-> "solved",
                x1_limit |-> x1_limit, x2_limit |-> x2_limit,
                obj |-> LPOptimum(x1_limit, x2_limit),
                dual |-> ImportedDual(x1_limit, x2_limit),
                dual_1 |-> 0, dual_2 |-> 0, change |-> 0, new_obj_value |-> 0,
                resolved |-> 0]
    /\ UNCHANGED <<kernelVars, rng, inst, flm, form, sto, pool, w2>>

\* 3c: dual_1 = -1*model.dual[model.constraint1]; dual_2 = ...
MarginalPrices ==
    /\ lp.solved /\ lp.stage = "solved"
    /\ lp' = [lp EXCEPT !.stage = "priced",
                        !.dual_1 = dual_1(lp.dual),
                        !.dual_2 = dual_2(lp.dual)]
    /\ UNCHANGED <<kernelVars, rng, inst, flm, form, sto, pool, w2>>

\* 3d: the objective recalculated for a relaxation of constraint 2.
Recalculate ==
    /\ lp.solved /\ lp.stage = "priced"
    /\ \E change_in_constraint_2 \in 1 .. MaxChange :
         lp' = [lp EXCEPT !.stage = "recalculated",
                          !.change = change_in_constraint_2,
                          !.new_obj_value =
                              new_obj_value(lp.obj, lp.dual_2, change_in_constraint_2)]
    /\ UNCHANGED <<kernelVars, rng, inst, flm, form, sto, pool, w2>>

\* 3e: the problem solved again with constraint 2 relaxed by the same amount.
ReSolve ==
    /\ lp.solved /\ lp.stage = "recalculated"
    /\ lp' = [lp EXCEPT !.stage = "resolved",
                        !.resolved = LPOptimum(lp.x1_limit, lp.x2_limit + lp.change)]
    /\ UNCHANGED <<kernelVars, rng, inst, flm, form, sto, pool, w2>>

NextMarginal == SolveLP \/ MarginalPrices \/ Recalculate \/ ReSolve

SpecMarginal == InitMarginal /\ [][NextMarginal]_vars

-----------------------------------------------------------------------------
(* Workshop 2, exercise version (Workshop_2.ipynb)                         *)
(*                                                                         *)
(* Its code cells define functions and two of them call the functions in   *)
(* turn.  A cell can be run at any time and any number of times; a def     *)
(* rebinds the function's name to the definition last executed.            *)

MaxRuns == 5             \* cell executions in one kernel session

\* A def cell: def <name>(<arity parameters>): ...
Def(line, name, arity, compiles) ==
    [kind |-> "def", line |-> line, name |-> name, arity |-> arity, compiles |-> compiles]

Call(target, fn, args) == [target |-> target, fn |-> fn, args |-> args]

RunCell(line, calls) == [kind |-> "run", line |-> line, calls |-> calls, compiles |-> TRUE]

Workshop2 ==
    << [kind |-> "setup", line |-> 32, compiles |-> TRUE],
       [kind |-> "data", line |-> 101, compiles |-> TRUE],
       Def(139, "initialize_model", 2, TRUE),
       \* "profit_expr = pass": the cell does not compile
       Def(167, "add_objective_function", 3, FALSE),
       Def(196, "add_demand_constraints", 2, TRUE),
       Def(223, "add_quality_constraints", 3, TRUE),
       Def(243, "solve_model", 1, TRUE),
       RunCell(261,
          << Call("model", "initialize_model", <<"local_suppliers", "customers">>),
             Call("model", "add_objective_function", <<"model", "suppliers", "customers">>),
             Call("model", "add_demand_constraints", <<"model", "customers">>),
             Call("model", "add_quality_constraints", <<"model", "suppliers", "customers">>),
             Call("", "solve_model", <<"model">>) >>),
       Def(360, "initialize_model", 3, TRUE),
       Def(397, "add_objective_function", 3, TRUE),
       Def(428, "add_demand_constraints", 2, TRUE),
       Def(452, "add_pool_balance_constraint", 1, TRUE),
       Def(476, "add_pool_quality_constraint", 2, TRUE),
       Def(502, "add_customer_quality_constraints", 3, TRUE),
       Def(520, "solve_model", 1, TRUE),
       RunCell(539,
          << Call("m", "initialize_model",
                  <<"local_suppliers", "remote_suppliers", "customers">>),
             Call("m", "add_objective_function", <<"m", "suppliers", "customers">>),
             Call("m", "add_demand_constraints", <<"m", "customers">>),
             Call("m", "add_pool_balance_constraint", <<"m">>),
             Call("m", "add_pool_quality_constraint", <<"m", "suppliers">>),
             Call("m", "add_customer_quality_constraints", <<"m", "suppliers", "customers">>),
             Call("", "solve_model", <<"m">>) >>) >>

W2Cells == DOMAIN Workshop2

FunctionNames == {Workshop2[k].name : k \in {c \in W2Cells : Workshop2[c].kind = "def"}}

\* Names bound by the data cell.
DataNames == {"customers", "suppliers", "local_suppliers", "remote_suppliers"}

ModelVariables == {"model", "m"}

UnboundModel == [bound |-> FALSE, made |-> 0, comps |-> {}]

\* What a call of the definition of cell k does with its (well-formed)
\* arguments: an exception, or the model object it returns.
Body2(k, arg, stamp, executables) ==
    CASE k = 3  -> [res |-> "", val |-> [bound |-> TRUE, made |-> stamp,
                                          comps |-> {"L", "C", "x"}]]
      [] k = 9  -> [res |-> "", val |-> [bound |-> TRUE, made |-> stamp,
                                          comps |-> {"L", "R", "C", "x", "y", "z", "f"}]]
      \* m.profit = Objective(expr=local_profit + ...): local_profit is not defined
      [] k = 10 -> [res |-> "NameError", val |-> arg]
      [] k = 5  -> [res |-> "", val |-> [arg EXCEPT !.comps = @ \cup {"demand_constraints"}]]
      [] k \in {7, 15} ->
            IF ~executables THEN [res |-> "NameError", val |-> arg]
            ELSE IF "profit" \notin arg.comps THEN [res |-> "ValueError", val |-> arg]
            ELSE [res |-> "", val |-> arg]
      [] OTHER  -> [res |-> "", val |-> arg]

\* <target> = <call>: the name is rebound only if the call returned.
TargetAfter(old, out) == IF out.res = "" THEN out.val ELSE old

InitWorkshop2 ==
    /\ KernelOff /\ GeneratorsOff /\ FacilityOff /\ FormulationsOff
    /\ UncertaintyOff /\ PoolingOff /\ MarginalOff
    /\ w2 = [started |-> TRUE, runs |-> 0, cell |-> 0, stmt |-> 0,
             executables |-> FALSE, data |-> FALSE,
             funcs |-> [f \in FunctionNames |-> 0],
             vars |-> [v \in ModelVariables |-> UnboundModel],
             executed |-> {},
             last |-> [c |-> 0, s |-> 0, res |-> "", def |-> 0, before |-> UnboundModel]]

Idle2 == w2.started /\ w2.cell = 0 /\ w2.runs < MaxRuns

Started2(k, res) ==
    [w2 EXCEPT !.runs = @ + 1, !.executed = @ \cup {k},
               !.last = [c |-> k, s |-> 0, res |-> res, def |-> 0,
                         before |-> w2.vars["model"]]]

\* The setup cell: the executables are bound on Windows and Linux, and the
\* unpacking of None raises TypeError elsewhere.
RunSetupCell2 ==
    /\ Idle2
    /\ \E k \in W2Cells, ok \in BOOLEAN :
         /\ Workshop2[k].kind = "setup"
         /\ w2' = [Started2(k, IF ok THEN "" ELSE "TypeError")
                     EXCEPT !.executables = @ \/ ok]
    /\ UNCHANGED <<kernelVars, rng, inst, flm, form, sto, pool, lp>>

RunDataCell2 ==
    /\ Idle2
    /\ \E k \in W2Cells :
         /\ Workshop2[k].kind = "data"
         /\ w2' = [Started2(k, "") EXCEPT !.data = TRUE]
    /\ UNCHANGED <<kernelVars, rng, inst, flm, form, sto, pool, lp>>

\* A def cell: the name is bound to this definition, unless the cell does
\* not compile, in which case nothing of it is executed.
RunDefCell2 ==
    /\ Idle2
    /\ \E k \in W2Cells :
         /\ Workshop2[k].kind = "def"
         /\ w2' = IF Workshop2[k].compiles
                    THEN [Started2(k, "") EXCEPT !.funcs[Workshop2[k].name] = k]
                    ELSE Started2(k, "SyntaxError")
    /\ UNCHANGED <<kernelVars, rng, inst, flm, form, sto, pool, lp>>

StartRunCell2 ==
    /\ Idle2
    /\ \E k \in W2Cells :
         /\ Workshop2[k].kind = "run"
         /\ w2' = [Started2(k, "") EXCEPT !.cell = k, !.stmt = 1]
    /\ UNCHANGED <<kernelVars, rng, inst, flm, form, sto, pool, lp>>

NameBound2(n) ==
    IF n \in ModelVariables THEN w2.vars[n].bound ELSE w2.data

\* Variant: the number of arguments is not compared with the parameters.
CallOutcomeAnyArity(cl) ==
    LET k == w2.funcs[cl.fn] IN
    IF k = 0 THEN [res |-> "NameError", val |-> UnboundModel]
    ELSE IF \E i \in DOMAIN cl.args : ~NameBound2(cl.args[i])
      THEN [res |-> "NameError", val |-> UnboundModel]
    ELSE Body2(k, IF cl.args[1] \in ModelVariables THEN w2.vars[cl.args[1]]
                  ELSE UnboundModel,
               w2.runs, w2.executables)

\* The outcome of <fn>(<args>): the function name is looked up, then the
\* arguments are evaluated, then the call binds them to the parameters.
CallOutcome(cl) ==
    LET k == w2.funcs[cl.fn] IN
    IF k = 0 THEN [res |-> "NameError", val |-> UnboundModel]
    ELSE IF \E i \in DOMAIN cl.args : ~NameBound2(cl.args[i])
      THEN [res |-> "NameError", val |-> UnboundModel]
    ELSE IF Len(cl.args) # Workshop2[k].arity
      THEN [res |-> "TypeError", val |-> UnboundModel]
    ELSE Body2(k, IF cl.args[1] \in ModelVariables THEN w2.vars[cl.args[1]]
                  ELSE UnboundModel,
               w2.runs, w2.executables)

\* One statement of a Run cell: a call and the assignment of its result.  An
\* exception, or the end of the cell, gives the kernel back to the user.
ExecCall2 ==
    /\ w2.started /\ w2.cell # 0
    /\ w2.stmt <= Len(Workshop2[w2.cell].calls)
    /\ LET cl == Workshop2[w2.cell].calls[w2.stmt]
           out == CallOutcome(cl)
           goes_on == out.res = "" /\ w2.stmt < Len(Workshop2[w2.cell].calls)
           ev == [c |-> w2.cell, s |-> w2.stmt, res |-> out.res,
                  def |-> w2.funcs[cl.fn], before |-> w2.vars["model"]]
       IN w2' = [w2 EXCEPT
                   !.last = ev,
                   !.vars = IF cl.target = "" THEN @
                            ELSE [@ EXCEPT ![cl.target] = TargetAfter(@, out)],
                   !.stmt = IF goes_on THEN @ + 1 ELSE 0,
                   !.cell = IF goes_on THEN @ ELSE 0]
    /\ UNCHANGED <<kernelVars, rng, inst, flm, form, sto, pool, lp>>

NextWorkshop2 ==
    \/ RunSetupCell2
    \/ RunDataCell2
    \/ RunDefCell2
    \/ StartRunCell2
    \/ ExecCall2

SpecWorkshop2 == InitWorkshop2 /\ [][NextWorkshop2]_vars

-----------------------------------------------------------------------------
(* Properties of the kernel (Spec)                                         *)

Events(op) == {k \in 1..Len(trace) : trace[k].op = op}

Errors == {"NameError", "AttributeError", "ValueError", "TypeError",
           "ApplicationError", "SyntaxError"}

\* The files of the os.system events, in the order they were issued.
ChmodLog == [i \in 1..Cardinality(Events("os.system")) |->
               trace[CHOOSE k \in Events("os.system") :
                       Cardinality({j \in Events("os.system") : j <= k}) = i].at]

SetupReturned == \E k \in Events("setup_return") : trace[k].res \in {"Windows", "Linux"}

\* C1: setup_solver on "Windows" returns the three .exe paths and changes no
\* file permission; on "Linux" it issues chmod +x on solver/ipopt, solver/cbc
\* and solver/bonmin in that order, and returns the three Linux paths only
\* after the third.
C1_SetupSolver ==
    /\ os_name = "Windows" =>
         /\ ChmodLog = <<>> /\ xbit = {}
         /\ SetupReturned =>
              /\ paths["ipopt_executable"] = "solver/ipopt.exe"
              /\ paths["cbc_executable"] = "solver/cbc.exe"
              /\ paths["bonmin_executable"] = "solver/ampl.mswin64/bonmin.exe"
    /\ os_name = "Linux" =>
         /\ \E n \in 0..3 :
              ChmodLog = SubSeq(<<"solver/ipopt", "solver/cbc", "solver/bonmin">>, 1, n)
         /\ SetupReturned =>
              /\ \A k \in Events("setup_return") :
                   {j \in Events("os.system") : j < k} = Events("os.system")
              /\ Len(ChmodLog) = 3
              /\ xbit = {"solver/ipopt", "solver/cbc", "solver/bonmin"}
              /\ paths["ipopt_executable"] = "solver/ipopt"
              /\ paths["cbc_executable"] = "solver/cbc"
              /\ paths["bonmin_executable"] = "solver/bonmin"
    /\ ~SetupReturned => \A n \in DOMAIN paths : paths[n] = ""

C1_Witness ==
    /\ os_name = "Linux"
    /\ SetupReturned
    /\ paths["bonmin_executable"] = "solver/bonmin"
    /\ Len(ChmodLog) = 3

\* The solve calls that were entered (the model and the solver both bound).
SolveCalls == {k \in Events("solve_call") : trace[k].res = ""}

\* C2 as stated: at every solve call reached, the model passed to the solver
\* holds exactly one objective.
C2_OneObjectiveAtEverySolve ==
    \A k \in SolveCalls : trace[k].n = 1

\* The cells of Workshop 1a shipped with "EXERCISE: Define the objective
\* function here" in place of the objective: 2b and 2c.
ExerciseSolve(k) == nb = "part_000" /\ trace[k].c \in {4, 6}

\* C2 as amended: at every solve call reached, the model passed holds exactly
\* one objective, except in the exercise cells 2b and 2c of Workshop 1a, where
\* it holds none.
C2_OneObjectiveOutsideExercises ==
    \A k \in SolveCalls :
        trace[k].n = IF ExerciseSolve(k) THEN 0 ELSE 1

C2_Witness ==
    /\ \E k \in SolveCalls : ExerciseSolve(k) /\ trace[k].n = 0
    /\ \E k \in SolveCalls : ~ExerciseSolve(k) /\ trace[k].n = 1

\* C3: a value of a solved variable or objective is read only after the solve
\* call on that model object has returned; and the call blocks: nothing is
\* executed between the entry into solve and its coming back, so while the
\* solver has not terminated no later statement of the cell runs.
C3_ReadsAfterBlockingSolve ==
    /\ \A k \in Events("read") :
         trace[k].res = "value" =>
           \E j \in Events("solve_return") :
             /\ j < k
             /\ trace[j].nm = trace[k].nm
             /\ \A i \in Events("new") : trace[i].nm = trace[k].nm => ~(j < i /\ i < k)
             /\ \E i \in SolveCalls : i = j - 1 /\ trace[i].nm = trace[k].nm
    /\ \A k \in SolveCalls :
         k < Len(trace) => trace[k + 1].op \in {"solve_return", "solve_raise"}
    /\ call = "running" =>
         /\ trace # <<>> /\ trace[Len(trace)].op = "solve_call"
         /\ Executing /\ CurStmt.op = "solve"

C3_Witness ==
    /\ \E k \in Events("read") : trace[k].res = "value" /\ trace[k].c = cell
    /\ phase = "idle"

Raised(k) == trace[k].res \in Errors

\* Statement k was followed, if by anything, by the next statement of its cell.
FallsThrough(k) ==
    k < Len(trace) =>
      \/ trace[k + 1].c = trace[k].c /\ trace[k + 1].s = trace[k].s + 1
      \/ trace[k + 1].c > trace[k].c /\ trace[k].s = Len(Program(nb)[trace[k].c].body)

\* C4 as stated: no cell catches or reports the outcome of a solve: after solve
\* returns the next statement runs whatever the termination condition was, an
\* exception ends the cell, and no termination status is ever printed.
C4_OutcomeNeverReported ==
    /\ \A k \in Events("solve_return") : FallsThrough(k)
    /\ \A k \in 1..Len(trace) :
         Raised(k) /\ k < Len(trace) => trace[k + 1].c > trace[k].c
    /\ Events("print_status") = {}

\* C4 as amended: no cell catches or branches on the outcome of a solve: after
\* solve returns the next statement runs whatever the termination condition
\* was, and an exception ends the cell. The only report of an outcome is the
\* robust cell of Workshop 5, which prints results.pyros_termination_condition
\* of the solve before it, unconditionally.
C4_OutcomeNeverBranchedOn ==
    /\ \A k \in Events("solve_return") : FallsThrough(k)
    /\ \A k \in 1..Len(trace) :
         Raised(k) /\ k < Len(trace) => trace[k + 1].c > trace[k].c
    /\ \A k \in Events("print_status") :
         /\ nb = "Workshop_5" /\ trace[k].c = 6
         /\ trace[k - 1].op = "print_result"
         /\ trace[k - 2].op = "solve_return" /\ trace[k - 2].at = "pyros"
         /\ trace[k].res = trace[k - 2].res

C4_Witness ==
    \E k \in Events("print_status") :
        /\ trace[k].res = "infeasible"
        /\ trace[k - 2].op = "solve_return" /\ trace[k - 2].res = "infeasible"

-----------------------------------------------------------------------------
(* Properties of GenerateInstance (SpecInstance)                           *)

\* The squared Euclidean distance between customer i and facility j of g,
\* from the coordinates g returns.
Distance2(g, i, j) ==
    (g.xC[i] - g.xF[j]) * (g.xC[i] - g.xF[j]) + (g.yC[i] - g.yF[j]) * (g.yC[i] - g.yF[j])

Pairs(g) == (1..Len(g.xC)) \X (1..Len(g.xF))

\* service[p] / d[p] = service[q] / d[q], with d the square root of Distance2,
\* written without division or roots: both sides are non-negative, so the
\* ratios are equal iff  service[p]^2 * d2[q] = service[q]^2 * d2[p].
SameRatio(g, p, q) ==
    g.service[p[1]][p[2]] * g.service[p[1]][p[2]] * Distance2(g, q[1], q[2])
      = g.service[q[1]][q[2]] * g.service[q[1]][q[2]] * Distance2(g, p[1], p[2])

\* C7: for every instance returned by GenerateInstance, the ratio of service
\* cost to Euclidean distance is the same for all customer-facility pairs at
\* non-zero distance.
C7_ServiceProportionalToDistance ==
    \A k \in Kernels : inst[k].made =>
        \A p, q \in Pairs(inst[k]) :
            (Distance2(inst[k], p[1], p[2]) # 0 /\ Distance2(inst[k], q[1], q[2]) # 0)
                => SameRatio(inst[k], p, q)

Returned(g) == <<g.installation, g.service, g.xC, g.yC, g.xF, g.yF>>

-----------------------------------------------------------------------------
(* Properties of CreateFacilityLocationModel (SpecFacility)                *)

Satisfied == flm.built /\ flm.assigned /\ flm.feasible

ServedBy(i) == {j \in flm.facilities : flm.y[<<i, j>>] = 1}

\* C5: in every assignment that satisfies the constraints of the model, each
\* customer i is served by exactly one facility: exactly one j has y[i,j] = 1.
C5_ExactlyOneFacility ==
    Satisfied => \A i \in flm.customers : Cardinality(ServedBy(i)) = 1

\* A satisfying assignment of a model with several facilities and customers.
C5_Witness ==
    /\ Satisfied
    /\ Cardinality(flm.facilities) > 1 /\ Cardinality(flm.customers) > 1
    /\ \E i, k \in flm.customers : ServedBy(i) # ServedBy(k)

\* C6: in every assignment that satisfies the constraints of the model, a
\* customer is only served by a built facility: y[i,j] = 1 implies x[j] = 1.
C6_ServedOnlyByBuilt ==
    Satisfied => \A i \in flm.customers : \A j \in flm.facilities :
                     flm.y[<<i, j>>] = 1 => flm.x[j] = 1

\* A satisfying assignment in which one facility is built and one is not.
C6_Witness ==
    /\ Satisfied
    /\ \E j, l \in flm.facilities : flm.x[j] = 1 /\ flm.x[l] = 0
    /\ \E i \in flm.customers : \E j \in flm.facilities : flm.y[<<i, j>>] = 1

-----------------------------------------------------------------------------
(* Properties of the Workshop 1b formulations (SpecFormulations)           *)

\* C9: with y binary and x >= 0, the reformulation 10y <= x, 20y <= x admits
\* exactly the values of x allowed by x = 0 or 10 <= x <= 20.
C9_ReformulationAdmitsSemiContinuous ==
    (form.study = "semi" /\ form.tried = Binary)
        => (form.admitted <=> SemiContinuous(form.x))

\* C10: for every x1 in [0,3] and x2 in [0,8] with x1 + x2 <= 8, the minimum
\* over binary (y1, y2) satisfying x1 <= 3 y1 and x2 <= 8 y2 of the objective
\* as written equals f1(x1) + f2(x2).
C10_FixedCostMILPEqualsPiecewise ==
    (form.study = "fixed" /\ form.tried = Binary \X Binary)
        => /\ form.values # {}
           /\ Minimum(form.values) = f1(form.x1) + f2(form.x2)

\* C11: in the blending reformulation, setting y3 = 0 forces z3 = 0 and
\* x3 = 0.
C11_Y3ZeroForcesZero ==
    (form.study = "blend" /\ 0 \in form.satisfied)
        => (form.z3 = 0 /\ form.x3 = 0)

\* C12: in the blending reformulation, setting y3 = 1 forces 10 <= z3 <= 20
\* and x3 = z3.
C12_Y3OneForcesRange ==
    (form.study = "blend" /\ 1 \in form.satisfied)
        => (10 <= form.z3 /\ form.z3 <= 20 /\ form.x3 = form.z3)

\* A point that satisfies the reformulation with y3 = 1, strictly inside the range.
C12_Witness ==
    /\ form.study = "blend"
    /\ 1 \in form.satisfied
    /\ 10 < form.z3 /\ form.z3 < 20

-----------------------------------------------------------------------------
(* Properties of the Workshop 5 models (SpecUncertainty)                   *)

Ones(y) == Cardinality({i \in DOMAIN y : y[i] = 1})

\* C13: in both stochastic models a solution is accepted by the chance
\* constraint exactly when at least 90 of the indicator variables y_i equal 1.
C13_ChanceConstraintNinety ==
    (sto.built \in {"b", "d"} /\ sto.yset) => (sto.yok <=> Ones(sto.y) >= 90)

\* C14: in the three models of Workshop 5 x1 ranges over 0 <= x1 <= 10: every
\* value in [0, 10] is admissible for x1 and no value outside it is.
C14_X1BetweenZeroAndTen ==
    (sto.built # "none" /\ sto.x1set) => (sto.x1ok <=> (0 <= sto.x1 /\ sto.x1 <= 10))

-----------------------------------------------------------------------------
(* Properties of a notebook run with cells left out (SpecSkipping)         *)

\* Positions in the trace where the global name nm was assigned.
Writes(nm) == {k \in DOMAIN trace : trace[k].op = "set" /\ trace[k].nm = nm}

\* Positions where section d of Workshop 5 (its fifth code cell) got to its
\* last print, the one of constraints_violated.
SectionDPrints ==
    {k \in DOMAIN trace : /\ nb = "Workshop_5"
                          /\ trace[k].c = 5
                          /\ trace[k].op = "use"
                          /\ trace[k].nm = "constraints_violated"}

\* C17: section d of Workshop 5 never writes constraints_violated.  Every
\* assignment of the name is made by section b (the third code cell), after a
\* read of the y variables of the model section b solved; the value section d
\* prints is the one section b assigned, and if section b assigned none the
\* print in section d fails with the name unbound.
C17_SectionDNeverWritesViolations ==
    nb = "Workshop_5" =>
        /\ \A w \in Writes("constraints_violated") :
              /\ trace[w].c = 3
              /\ trace[w - 1].c = 3 /\ trace[w - 1].op = "read"
              /\ trace[w - 1].at = "y" /\ trace[w - 1].res = "value"
        /\ \A k \in SectionDPrints :
              IF \E w \in Writes("constraints_violated") : w < k
                THEN trace[k].res = "value"
                ELSE trace[k].res = "NameError"

\* Sections b and d were run in order, the second model was solved, and
\* section d printed the value section b had assigned.
C17_Witness ==
    /\ nb = "Workshop_5"
    /\ \E k \in SectionDPrints :
          /\ trace[k].res = "value"
          /\ \E w \in Writes("constraints_violated"), r \in DOMAIN trace :
                /\ w < r /\ r < k
                /\ trace[r].c = 5 /\ trace[r].op = "solve_return"

\* Section b was left out and section d failed at its last print.
SectionDFailsUnbound ==
    /\ nb = "Workshop_5"
    /\ \A k \in DOMAIN trace : trace[k].c # 3
    /\ \E k \in SectionDPrints : trace[k].res = "NameError"

-----------------------------------------------------------------------------
(* Properties of the pooling model (SpecPooling)                           *)

PoolSatisfied == pool.built /\ pool.assigned /\ pool.feasible

PoolInflow == Sum(pool.z, RemoteSuppliers)

\* f = (sum of conc_r z_r) / (sum of z_r): the quotient exists and f is it.
IsWeightedAverage ==
    /\ PoolInflow # 0
    /\ pool.f * PoolInflow
         = Sum([r \in RemoteSuppliers |-> SupplierFat[r] * pool.z[r]], RemoteSuppliers)

\* C15 as stated: in every assignment satisfying the constraints of the
\* pooling model, f is the flow-weighted average of the fat contents of the
\* remote farms feeding the pool, for every pool flow including zero.
C15_PoolCompositionIsAverage == PoolSatisfied => IsWeightedAverage

ZeroFlow(S) == [e \in S |-> 0]

\* C15 as amended: f is the flow-weighted average whenever the pool flow is
\* not zero; at zero pool flow the quality constraint holds for every f
\* within its bounds, so f is not determined.
C15_PoolCompositionIsAverageOfFlow ==
    /\ (PoolSatisfied /\ PoolInflow # 0) => IsWeightedAverage
    /\ (PoolSatisfied /\ PoolInflow = 0) => Sum(pool.y, Customers) = 0
    /\ \A f \in FValues :
          FWithinBounds(f) => pool_quality_rule(ZeroFlow(Customers),
                                                ZeroFlow(RemoteSuppliers), f)

\* A satisfying assignment in which both remote farms feed the pool.
C15_Witness ==
    /\ PoolSatisfied
    /\ \A r \in RemoteSuppliers : pool.z[r] > 0
    /\ IsWeightedAverage

-----------------------------------------------------------------------------
(* Properties of the marginal prices (SpecMarginal)                        *)

NotebookLP == lp.solved /\ lp.x1_limit = 2 /\ lp.x2_limit = 3

-----------------------------------------------------------------------------
(* Properties of the Workshop 2 exercise notebook (SpecWorkshop2)          *)

\* The def statements of a name in the notebook's source.
DefsOf(name) == {k \in W2Cells : Workshop2[k].kind = "def" /\ Workshop2[k].name = name}

DefinedTwice ==
    \A name \in {"initialize_model", "add_objective_function",
                 "add_demand_constraints", "solve_model"} :
        Cardinality(DefsOf(name)) = 2

Option1Run == CHOOSE k \in W2Cells : Workshop2[k].kind = "run" /\ Workshop2[k].line = 261

PoolingInitialize == CHOOSE k \in DefsOf("initialize_model") : Workshop2[k].arity = 3

\* The kernel has just executed the first call of the Option 1 Run cell.
FirstCallDone == w2.last.c = Option1Run /\ w2.last.s = 1

=============================================================================
